---------------------------- MODULE Spec2Model ----------------------------
(***************************************************************************)
(* Model of the EOF v1 container prototype (prototype/eof/src/lib.rs):     *)
(* parse_eof_container, validate_eof_container, SimulatedStack and         *)
(* simulate_eof_step, together with the byte-level writers used by the     *)
(* crate's tests to build inputs.                                          *)
(*                                                                         *)
(* Bytes are naturals in 0..255, u16 values naturals in 0..65535.  Rust    *)
(* slices are 0-based; the sequences here are 1-based, so bytecode[cursor] *)
(* of the source is bytecode[cursor + 1] below.                            *)
(***************************************************************************)
EXTENDS Integers, Sequences, FiniteSets, TLC

VARIABLES
    bytecode,       \* the byte sequence handed to parse_eof_container
    presult,        \* the Result of parse_eof_container(bytecode)
    wstage,         \* the byte writer's position: magic, version, headers, content
    container,      \* an EOFContainer value (header + sections)
    vresult,        \* the Result of validate_eof_container(container)
    pvresult,       \* the Result of validating the parsed container (parse, then validate)
    code_sections,  \* first argument of tests::create_valid_eof_bytecode
    data_section,   \* second argument (an Option, a sequence of length 0 or 1)
    code,           \* the code section handed to simulate_eof_step
    pc,             \* the stepper's cursor (*pc)
    stack,          \* the SimulatedStack (self.0), top of stack last
    stepResult,     \* the Result of the last call on the stepper or the stack
    lastCall,       \* which call was made last: none, step, push or pop
    pc0,            \* the cursor before the last call
    stack0          \* the stack before the last call

vars == <<bytecode, presult, wstage, container, vresult, pvresult, code_sections,
          data_section, code, pc, stack, stepResult, lastCall, pc0, stack0>>

---------------------------------------------------------------------------
(* Constants of the source.                                                *)

EOF_MAGIC == 61184      \* 0xEF00
EOF_VERSION == 1        \* 0x01
JUMP == 86              \* 0x56
JUMPI == 87             \* 0x57
PC == 88                \* 0x58
INVALID == 254          \* 0xFE
SELFDESTRUCT == 255     \* 0xFF
PUSH1 == 96             \* 0x60
PUSH32 == 127           \* 0x7F
RJUMP == 224            \* 0xE0
RJUMPI == 225           \* 0xE1
ADD == 1                \* 0x01, the binary-op placeholder of the stepper
TERMINATOR == 0         \* 0x00, ends the header list
STACK_LIMIT == 1024     \* capacity checked by SimulatedStack::push

(* enum SectionKind and its #[repr(u8)] discriminants (`kind as u8`).      *)
SectionKind == {"Type", "Code", "Container", "Data"}

SectionKind_as_u8(kind) ==
    CASE kind = "Type" -> 1
      [] kind = "Code" -> 2
      [] kind = "Container" -> 3
      [] kind = "Data" -> 4

(* Result values.  Every Result is a record with the same fields, so that  *)
(* any two Results can be compared.  `arg` is the payload of an EOFError   *)
(* variant: a byte, or the discriminant of a SectionKind; -1 when the      *)
(* variant carries none.                                                   *)
NoValue == <<>>
NoArg == -1
Ok(v) == [ok |-> TRUE, val |-> v, err |-> "", arg |-> NoArg]
Err(e) == [ok |-> FALSE, val |-> NoValue, err |-> e, arg |-> NoArg]
ErrArg(e, a) == [ok |-> FALSE, val |-> NoValue, err |-> e, arg |-> a]
NotCalled == Err("NotCalled")

(* impl TryFrom<u8> for SectionKind                                        *)
SectionKind_try_from(value) ==
    CASE value = 1 -> Ok("Type")
      [] value = 2 -> Ok("Code")
      [] value = 3 -> Ok("Container")
      [] value = 4 -> Ok("Data")
      [] OTHER -> ErrArg("InvalidSectionKind", value)

(* Mutant of u16_from_be_bytes: the bytes read in little-endian order.     *)
u16_from_le_bytes(hi, lo) == lo * 256 + hi

(* u16::from_be_bytes and u16::to_be_bytes                                 *)
u16_from_be_bytes(hi, lo) == hi * 256 + lo
u16_to_be_bytes(v) == <<(v \div 256) % 256, v % 256>>

(* `x as u16`: truncation to 16 bits.                                      *)
as_u16(x) == x % 65536

(* Mutant of Slice: the range end taken one byte short.                    *)
Slice_OneShort(s, from, to) == SubSeq(s, from + 1, to - 1)

(* bytecode[from..to] of the source (0-based, `to` exclusive).             *)
Slice(s, from, to) == SubSeq(s, from + 1, to)

---------------------------------------------------------------------------
(* parse_eof_container                                                     *)

(* Step 3: the header loop.  `cursor` is 0-based as in the source; the     *)
(* loop's locals are threaded through the recursion.  The result carries   *)
(* the cursor after the terminator, the headers and the Type count.        *)
RECURSIVE ParseHeaders(_, _, _, _, _)
ParseHeaders(bytes, cursor, section_headers, type_section_count, data_section_count) ==
    IF Len(bytes) < cursor + 1 THEN Err("UnexpectedEndOfInput")
    ELSE LET kind_byte == bytes[cursor + 1]
             cursor1 == cursor + 1
         IN  IF kind_byte = TERMINATOR
             THEN Ok([cursor |-> cursor1,
                      section_headers |-> section_headers,
                      type_section_count |-> type_section_count])
             ELSE LET k == SectionKind_try_from(kind_byte)
                  IN  IF ~k.ok THEN k
                      ELSE IF Len(bytes) < cursor1 + 2 THEN Err("UnexpectedEndOfInput")
                      ELSE LET kind == k.val
                               size == u16_from_be_bytes(bytes[cursor1 + 1], bytes[cursor1 + 2])
                               cursor2 == cursor1 + 2
                               tcount == IF kind = "Type" THEN type_section_count + 1
                                         ELSE type_section_count
                               dcount == IF kind = "Data" THEN data_section_count + 1
                                         ELSE data_section_count
                           IN  IF kind = "Type" /\ tcount > 1
                                   THEN ErrArg("DuplicateSection", SectionKind_as_u8(kind))
                               ELSE IF kind = "Data" /\ dcount > 1
                                   THEN ErrArg("DuplicateSection", SectionKind_as_u8(kind))
                               ELSE ParseHeaders(bytes, cursor2,
                                        Append(section_headers, [kind |-> kind, size |-> size]),
                                        tcount, dcount)

(* Mutant of ExtractSections: missing content reported as a size mismatch. *)
RECURSIVE ExtractSections_WrongError(_, _, _, _, _)
ExtractSections_WrongError(bytes, cursor, section_headers, idx, sections) ==
    IF idx > Len(section_headers)
    THEN Ok([cursor |-> cursor, sections |-> sections])
    ELSE LET header == section_headers[idx]
         IN  IF Len(bytes) < cursor + header.size
             THEN Err("SectionSizeMismatch")
             ELSE ExtractSections_WrongError(bytes, cursor + header.size, section_headers,
                      idx + 1, Append(sections, Slice(bytes, cursor, cursor + header.size)))

(* Step 4: the content loop over section_headers[idx..].  The running      *)
(* total_declared_size is a usize sum of u16 values, one per 3-byte header *)
(* of the input, so its checked_add cannot fail on any input that fits in  *)
(* memory; the total is otherwise unused.                                  *)
RECURSIVE ExtractSections(_, _, _, _, _)
ExtractSections(bytes, cursor, section_headers, idx, sections) ==
    IF idx > Len(section_headers)
    THEN Ok([cursor |-> cursor, sections |-> sections])
    ELSE LET header == section_headers[idx]
         IN  IF Len(bytes) < cursor + header.size
             THEN Err("UnexpectedEndOfInput")
             ELSE ExtractSections(bytes, cursor + header.size, section_headers, idx + 1,
                      Append(sections, Slice(bytes, cursor, cursor + header.size)))

(* Mutant of HasStrayBytes: one stray byte tolerated.                      *)
HasStrayBytes_OneAllowed(bytes, cursor) == Len(bytes) > cursor + 1

(* Step 5: bytes left after the last declared section.                     *)
HasStrayBytes(bytes, cursor) == Len(bytes) > cursor

parse_eof_container(bytes) ==
    IF Len(bytes) < 2 THEN Err("UnexpectedEndOfInput")
    ELSE IF u16_from_be_bytes(bytes[1], bytes[2]) # EOF_MAGIC THEN Err("InvalidMagic")
    ELSE IF Len(bytes) < 2 + 1 THEN Err("UnexpectedEndOfInput")
    ELSE IF bytes[3] # EOF_VERSION THEN ErrArg("InvalidVersion", bytes[3])
    ELSE LET h == ParseHeaders(bytes, 3, <<>>, 0, 0)
         IN  IF ~h.ok THEN h
             ELSE IF h.val.section_headers = <<>> THEN Err("MissingTerminator")
             ELSE IF h.val.type_section_count = 0 THEN Err("MissingTerminator")
             ELSE LET s == ExtractSections(bytes, h.val.cursor, h.val.section_headers, 1, <<>>)
                  IN  IF ~s.ok THEN s
                      ELSE IF HasStrayBytes(bytes, s.val.cursor) THEN Err("SectionSizeMismatch")
                      ELSE Ok([header |-> [version |-> bytes[3],
                                           section_headers |-> h.val.section_headers],
                               sections |-> s.val.sections])

---------------------------------------------------------------------------
(* validate_eof_container                                                  *)

Last(s) == s[Len(s)]
Contains(s, x) == \E i \in 1..Len(s) : s[i] = x

(* The first loop: section order and emptiness, one header per iteration   *)
(* (idx is 0-based as in the source).  Ok carries code_section_count.      *)
RECURSIVE OrderLoop(_, _, _, _, _)
OrderLoop(section_headers, idx, section_kind_order, code_section_count, data_section_found) ==
    IF idx >= Len(section_headers) THEN Ok(code_section_count)
    ELSE LET header == section_headers[idx + 1]
             count == IF header.kind = "Code" THEN code_section_count + 1
                      ELSE code_section_count
             found == data_section_found \/ header.kind = "Data"
             misplaced ==
                 CASE header.kind = "Type" -> idx # 0
                   [] header.kind = "Code" ->
                        \/ section_kind_order = <<>>
                        \/ Last(section_kind_order) \notin {"Type", "Code"}
                   [] header.kind = "Data" -> Contains(section_kind_order, "Container")
                   [] header.kind = "Container" -> data_section_found
         IN  IF misplaced THEN Err("MalformedSectionHeader")
             ELSE IF header.size = 0 /\ header.kind \in {"Type", "Code"}
                 THEN Err("SectionSizeMismatch")
             ELSE OrderLoop(section_headers, idx + 1,
                      Append(section_kind_order, header.kind), count, found)

(* Mutant of PushSize: one immediate byte too many.                        *)
PushSize_OneMore(opcode) == opcode - PUSH1 + 2

(* push_size of a PUSH1..PUSH32 opcode.                                    *)
PushSize(opcode) == opcode - PUSH1 + 1

(* The while loop over one code section, from offset i (0-based).          *)
RECURSIVE ScanCode(_, _)
ScanCode(code_bytes, i) ==
    IF i >= Len(code_bytes) THEN Ok(NoValue)
    ELSE LET opcode == code_bytes[i + 1]
         IN  IF opcode = INVALID THEN ErrArg("InvalidOpcode", opcode)
             ELSE IF opcode = SELFDESTRUCT THEN ErrArg("InvalidOpcode", opcode)
             ELSE IF opcode \in {JUMP, JUMPI, PC} THEN ErrArg("JumpDestForbidden", opcode)
             ELSE IF opcode \in PUSH1..PUSH32
                 THEN IF i + 1 + PushSize(opcode) > Len(code_bytes)
                      THEN Err("TruncatedPushData")
                      ELSE ScanCode(code_bytes, i + PushSize(opcode) + 1)
             ELSE ScanCode(code_bytes, i + 1)

(* The second loop: every Code section, in header order.                   *)
RECURSIVE ScanCodeSections(_, _)
ScanCodeSections(c, idx) ==
    IF idx >= Len(c.header.section_headers) THEN Ok(NoValue)
    ELSE IF c.header.section_headers[idx + 1].kind = "Code"
         THEN LET r == ScanCode(c.sections[idx + 1], 0)
              IN  IF ~r.ok THEN r ELSE ScanCodeSections(c, idx + 1)
         ELSE ScanCodeSections(c, idx + 1)

(* .iter().find(|h| h.kind == SectionKind::Type): indices of Type headers. *)
TypeHeaderIndices(section_headers) ==
    {i \in 1..Len(section_headers) : section_headers[i].kind = "Type"}

Min(S) == CHOOSE x \in S : \A y \in S : x <= y

(* Mutant of TypeSizeMatchesCodeCount: the remainder is not checked.       *)
TypeSizeMatchesCodeCount_NoRemainder(size, code_section_count) ==
    size \div 4 = code_section_count

(* The two checks on the Type section's size.                              *)
TypeSizeMatchesCodeCount(size, code_section_count) ==
    /\ size % 4 = 0
    /\ size \div 4 = code_section_count

(* Mutant of validate_eof_container: the type/code consistency check made  *)
(* before the scan of the Code sections.                                   *)
validate_eof_container_TypeCheckFirst(c) ==
    LET section_headers == c.header.section_headers
        o == OrderLoop(section_headers, 0, <<>>, 0, FALSE)
    IN  IF ~o.ok THEN o
        ELSE IF o.val = 0 THEN Err("MissingTerminator")
        ELSE IF TypeHeaderIndices(section_headers) = {}
            THEN Err("MissingTerminator")
        ELSE LET type_section_header ==
                     section_headers[Min(TypeHeaderIndices(section_headers))]
             IN  IF ~TypeSizeMatchesCodeCount(type_section_header.size, o.val)
                 THEN Err("MalformedSectionHeader")
                 ELSE ScanCodeSections(c, 0)

validate_eof_container(c) ==
    LET section_headers == c.header.section_headers
        o == OrderLoop(section_headers, 0, <<>>, 0, FALSE)
    IN  IF ~o.ok THEN o
        ELSE IF o.val = 0 THEN Err("MissingTerminator")
        ELSE LET sc == ScanCodeSections(c, 0)
             IN  IF ~sc.ok THEN sc
                 ELSE IF TypeHeaderIndices(section_headers) = {}
                     THEN Err("MissingTerminator")
                 ELSE LET type_section_header ==
                              section_headers[Min(TypeHeaderIndices(section_headers))]
                      IN  IF ~TypeSizeMatchesCodeCount(type_section_header.size, o.val)
                          THEN Err("MalformedSectionHeader")
                          ELSE Ok(NoValue)

---------------------------------------------------------------------------
(* SimulatedStack and simulate_eof_step                                    *)

(* A usize cursor is modelled by an integer v: v >= 0 stands for the value *)
(* v, and v < 0 stands for 2^64 + v, which is what `(x as isize + y as     *)
(* isize) as usize` yields on a 64-bit target when the isize sum v is      *)
(* negative.  Every cursor the model reaches is within 2^16 of 0 or of     *)
(* 2^64, so the two ranges never meet.                                     *)
usize_lt(p, n) == p >= 0 /\ p < n

(* i16::from_be_bytes                                                      *)
i16_from_be_bytes(hi, lo) ==
    LET v == hi * 256 + lo IN IF v >= 32768 THEN v - 65536 ELSE v

(* Mutant of SimulatedStack_push: the capacity check off by one.           *)
SimulatedStack_push_OneMore(s, val) ==
    IF Len(s) > STACK_LIMIT
    THEN [res |-> Err("StackOverflow"), stack |-> s]
    ELSE [res |-> Ok(NoValue), stack |-> Append(s, val)]

(* SimulatedStack::push: the Result and the stack afterwards.              *)
SimulatedStack_push(s, val) ==
    IF Len(s) >= STACK_LIMIT
    THEN [res |-> Err("StackOverflow"), stack |-> s]
    ELSE [res |-> Ok(NoValue), stack |-> Append(s, val)]

(* SimulatedStack::pop: Vec::pop, None mapped to StackUnderflow.           *)
SimulatedStack_pop(s) ==
    IF s = <<>>
    THEN [res |-> Err("StackUnderflow"), stack |-> s]
    ELSE [res |-> Ok(s[Len(s)]), stack |-> SubSeq(s, 1, Len(s) - 1)]

(* The cursor a taken relative jump stores.                                *)
JumpTarget(p, offset) == p + offset

(* simulate_eof_step: the Result and the cursor and stack afterwards.      *)
(* Every `?` returns at once, keeping what the call has already changed.   *)
StepOut(res, p, s) == [res |-> res, pc |-> p, stack |-> s]

StepPush(code_section, p, s, opcode) ==
    LET push_size == PushSize(opcode)
    IN  IF p + 1 + push_size > Len(code_section)
        THEN StepOut(Err("TruncatedPushData"), p, s)
        ELSE LET r == SimulatedStack_push(s, opcode)
             IN  IF ~r.res.ok THEN StepOut(r.res, p, r.stack)
                 ELSE StepOut(Ok(NoValue), p + push_size + 1, r.stack)

(* Mutant of StepBinaryOp: a failed second pop puts the first value back.  *)
StepBinaryOp_Atomic(p, s) ==
    LET a == SimulatedStack_pop(s)
    IN  IF ~a.res.ok THEN StepOut(a.res, p, s)
        ELSE LET b == SimulatedStack_pop(a.stack)
             IN  IF ~b.res.ok THEN StepOut(b.res, p, s)
                 ELSE LET r == SimulatedStack_push(b.stack, 0)
                      IN  IF ~r.res.ok THEN StepOut(r.res, p, s)
                          ELSE StepOut(Ok(NoValue), p + 1, r.stack)

StepBinaryOp(p, s) ==
    LET a == SimulatedStack_pop(s)
    IN  IF ~a.res.ok THEN StepOut(a.res, p, a.stack)
        ELSE LET b == SimulatedStack_pop(a.stack)
             IN  IF ~b.res.ok THEN StepOut(b.res, p, b.stack)
                 ELSE LET r == SimulatedStack_push(b.stack, 0)
                      IN  IF ~r.res.ok THEN StepOut(r.res, p, r.stack)
                          ELSE StepOut(Ok(NoValue), p + 1, r.stack)

StepRJump(code_section, p, s) ==
    IF p + 3 > Len(code_section)
    THEN StepOut(Err("UnexpectedEndOfInput"), p, s)
    ELSE LET offset == i16_from_be_bytes(code_section[p + 2], code_section[p + 3])
         IN  StepOut(Ok(NoValue), JumpTarget(p, offset), s)

(* Mutant of StepRJumpI: a failed pop taken as a zero condition.           *)
StepRJumpI_UnderflowAsZero(code_section, p, s) ==
    IF p + 3 > Len(code_section)
    THEN StepOut(Err("UnexpectedEndOfInput"), p, s)
    ELSE LET c == SimulatedStack_pop(s)
             condition == IF c.res.ok THEN c.res.val ELSE 0
             offset == i16_from_be_bytes(code_section[p + 2], code_section[p + 3])
         IN  IF condition # 0
             THEN StepOut(Ok(NoValue), JumpTarget(p, offset), c.stack)
             ELSE StepOut(Ok(NoValue), p + 3, c.stack)

StepRJumpI(code_section, p, s) ==
    IF p + 3 > Len(code_section)
    THEN StepOut(Err("UnexpectedEndOfInput"), p, s)
    ELSE LET c == SimulatedStack_pop(s)
         IN  IF ~c.res.ok THEN StepOut(c.res, p, c.stack)
             ELSE LET condition == c.res.val
                      offset == i16_from_be_bytes(code_section[p + 2], code_section[p + 3])
                  IN  IF condition # 0
                      THEN StepOut(Ok(NoValue), JumpTarget(p, offset), c.stack)
                      ELSE StepOut(Ok(NoValue), p + 3, c.stack)

simulate_eof_step(code_section, p, s) ==
    IF ~usize_lt(p, Len(code_section))
    THEN StepOut(Err("UnexpectedEndOfInput"), p, s)
    ELSE LET opcode == code_section[p + 1]
         IN  CASE opcode \in PUSH1..PUSH32 -> StepPush(code_section, p, s, opcode)
               [] opcode = ADD -> StepBinaryOp(p, s)
               [] opcode = RJUMP -> StepRJump(code_section, p, s)
               [] opcode = RJUMPI -> StepRJumpI(code_section, p, s)
               [] OTHER -> StepOut(Ok(NoValue), p + 1, s)

---------------------------------------------------------------------------
(* Writers of whole containers.                                            *)

(* Concatenation of a sequence of byte sequences.                          *)
RECURSIVE Concat(_)
Concat(seqs) == IF seqs = <<>> THEN <<>> ELSE Head(seqs) \o Concat(Tail(seqs))

Zeros(n) == [i \in 1..n |-> 0]

(* One header record on the wire: the kind byte, then size.to_be_bytes().  *)
HeaderBytes(kind, size) == <<SectionKind_as_u8(kind)>> \o u16_to_be_bytes(size)

(* The wire form of a container, as the tests write it for an explicit     *)
(* header list: magic, version, one record per header, the terminator,     *)
(* then the contents in header order.                                      *)
Serialize(c) ==
    u16_to_be_bytes(EOF_MAGIC)
    \o <<c.header.version>>
    \o Concat([i \in 1..Len(c.header.section_headers) |->
                  HeaderBytes(c.header.section_headers[i].kind,
                              c.header.section_headers[i].size)])
    \o <<TERMINATOR>>
    \o Concat(c.sections)

(* tests::create_valid_eof_bytecode.  data is an Option: <<>> is None and  *)
(* <<d>> is Some(d).                                                       *)
create_valid_eof_bytecode(codes, data) ==
    LET type_size == as_u16(Len(codes) * 4)
    IN  u16_to_be_bytes(EOF_MAGIC)
        \o <<EOF_VERSION>>
        \o HeaderBytes("Type", type_size)
        \o Concat([i \in 1..Len(codes) |-> HeaderBytes("Code", as_u16(Len(codes[i])))])
        \o (IF data = <<>> THEN <<>> ELSE HeaderBytes("Data", as_u16(Len(data[1]))))
        \o <<TERMINATOR>>
        \o Zeros(type_size)
        \o Concat(codes)
        \o (IF data = <<>> THEN <<>> ELSE data[1])

---------------------------------------------------------------------------
(* Bounds of the explored inputs.                                          *)

MaxLen == 15            \* longest byte sequence the writer produces
MaxHeaders == 3         \* most section headers the writer declares
MaxSize == 2            \* largest small declared size
MaxSections == 4        \* most sections of a container built section by section
MaxCodeSections == 2    \* most code sections handed to create_valid_eof_bytecode
MaxCodeBytes == 5       \* most code bytes, over all those code sections
MaxStepLen == 3         \* longest code section enumerated for the stepper
MaxStack == 2           \* deepest stack the stepper is driven to
MaxRunLen == 4          \* longest code section validated and then run

(* Values of the variables a specification does not use.                   *)
EmptyContainer == [header |-> [version |-> EOF_VERSION, section_headers |-> <<>>],
                   sections |-> <<>>]

IdleWriter == /\ bytecode = <<>>
              /\ presult = NotCalled
              /\ wstage = "idle"

IdleBuilder == /\ container = EmptyContainer
               /\ vresult = NotCalled
               /\ pvresult = NotCalled
               /\ code_sections = <<>>
               /\ data_section = <<>>

IdleStepper == /\ code = <<>>
               /\ pc = 0
               /\ stack = <<>>
               /\ stepResult = NotCalled
               /\ lastCall = "none"
               /\ pc0 = 0
               /\ stack0 = <<>>

builderVars == <<container, vresult, pvresult, code_sections, data_section>>
stepperVars == <<code, pc, stack, stepResult, lastCall, pc0, stack0>>

---------------------------------------------------------------------------
(* SpecParse: a writer emits a byte sequence field by field, the way the   *)
(* tests assemble their inputs (magic, version, header records, the        *)
(* terminator, content bytes), and parse_eof_container is applied to       *)
(* everything written so far.  The writer stops once the parser rejects    *)
(* what is written for a reason no further byte can change; it goes on     *)
(* after Ok and SectionSizeMismatch, writing stray bytes.                  *)

Magics == {EOF_MAGIC, 57005}                  \* 0xEF00, 0xDEAD
Versions == {EOF_VERSION, 2}
KindBytes == 1..5                             \* 0x05 is no SectionKind
HeaderSizes == (0..MaxSize) \cup {256}
ContentBytes == {0, 170}                      \* 0x00, 0xAA

Writable ==
    /\ Len(bytecode) < MaxLen
    /\ \/ presult.ok
       \/ presult.err \in {"UnexpectedEndOfInput", "SectionSizeMismatch"}

Written(bytes, stage) ==
    /\ Len(bytes) <= MaxLen
    /\ bytecode' = bytes
    /\ presult' = parse_eof_container(bytes)
    /\ wstage' = stage
    /\ UNCHANGED <<builderVars, stepperVars>>

WriteMagic(m) ==
    /\ wstage = "magic"
    /\ Written(bytecode \o u16_to_be_bytes(m), "version")

WriteVersion(v) ==
    /\ wstage = "version"
    /\ Writable
    /\ Written(Append(bytecode, v), "headers")

WriteSectionHeader(kind_byte, size) ==
    /\ wstage = "headers"
    /\ Writable
    /\ Len(bytecode) < 3 + 3 * MaxHeaders
    /\ Written(Append(bytecode, kind_byte) \o u16_to_be_bytes(size), "headers")

WriteTerminator ==
    /\ wstage = "headers"
    /\ Writable
    /\ Written(Append(bytecode, TERMINATOR), "content")

WriteContent(b) ==
    /\ wstage = "content"
    /\ Writable
    /\ Written(Append(bytecode, b), "content")

InitParse ==
    /\ bytecode = <<>>
    /\ presult = parse_eof_container(<<>>)
    /\ wstage = "magic"
    /\ IdleBuilder
    /\ IdleStepper

NextParse ==
    \/ \E m \in Magics : WriteMagic(m)
    \/ \E v \in Versions : WriteVersion(v)
    \/ \E k \in KindBytes, size \in HeaderSizes : WriteSectionHeader(k, size)
    \/ WriteTerminator
    \/ \E b \in ContentBytes : WriteContent(b)

SpecParse == InitParse /\ [][NextParse]_vars

---------------------------------------------------------------------------
(* Claims about parse_eof_container, checked under SpecParse.              *)

(* What the wire says, read off the bytes without the parser: header       *)
(* record i (from 1) occupies the three bytes after offset 3 * i.          *)
WireKindByte(bytes, i) == bytes[3 * i + 1]
WireSize(bytes, i) == bytes[3 * i + 2] * 256 + bytes[3 * i + 3]

RECURSIVE WireContentSize(_, _)
WireContentSize(bytes, n) ==
    IF n = 0 THEN 0 ELSE WireContentSize(bytes, n - 1) + WireSize(bytes, n)

(* bytes start with the magic, the version and exactly n header records    *)
(* followed by the terminator; the records name known kinds, exactly one   *)
(* Type and at most one Data.                                              *)
WireHeaderList(bytes, n) ==
    /\ n >= 1
    /\ Len(bytes) >= 3 * n + 4
    /\ bytes[1] = 239 /\ bytes[2] = 0 /\ bytes[3] = 1
    /\ \A i \in 1..n : WireKindByte(bytes, i) \in 1..4
    /\ bytes[3 * n + 4] = 0
    /\ Cardinality({i \in 1..n : WireKindByte(bytes, i) = 1}) = 1
    /\ Cardinality({i \in 1..n : WireKindByte(bytes, i) = 4}) <= 1

(* C1: whenever parse_eof_container returns Ok(c), c.sections is as long   *)
(* as c.header.section_headers, every section is as long as its header's   *)
(* size, and the headers are those of the wire, in wire order.             *)
C1_SectionsMatchHeaders ==
    presult.ok =>
        LET c == presult.val
            n == Len(c.header.section_headers)
        IN  /\ Len(c.sections) = n
            /\ \A i \in 1..n : Len(c.sections[i]) = c.header.section_headers[i].size
            /\ WireHeaderList(bytecode, n)
            /\ \A i \in 1..n :
                 /\ SectionKind_as_u8(c.header.section_headers[i].kind)
                        = WireKindByte(bytecode, i)
                 /\ c.header.section_headers[i].size = WireSize(bytecode, i)

(* C1 witness: an accepted input with two sections of different, nonzero   *)
(* sizes.                                                                  *)
C1_Witness ==
    /\ presult.ok
    /\ Len(presult.val.sections) = 2
    /\ Len(presult.val.sections[1]) = 1
    /\ Len(presult.val.sections[2]) = 2

(* C2: if parse_eof_container accepts the input, it rejects every proper   *)
(* prefix of it, each time with UnexpectedEndOfInput.                      *)
C2_TruncationMonotonicity ==
    presult.ok =>
        \A k \in 0..(Len(bytecode) - 1) :
            parse_eof_container(SubSeq(bytecode, 1, k)) = Err("UnexpectedEndOfInput")

(* C2 witness: an accepted input with two headers and section content, so *)
(* that its prefixes end in every part of the layout.                      *)
C2_Witness ==
    /\ presult.ok
    /\ Len(presult.val.sections) = 2
    /\ Len(bytecode) >= 12

(* C3: an input that holds magic, version, a well-formed header list and   *)
(* all declared content, followed by at least one more byte, is rejected   *)
(* with SectionSizeMismatch; so is an accepted input with a byte appended. *)
C3_NoTrailingBytes ==
    /\ \A n \in 1..MaxHeaders :
         (/\ WireHeaderList(bytecode, n)
          /\ Len(bytecode) > 3 * n + 4 + WireContentSize(bytecode, n))
         => presult = Err("SectionSizeMismatch")
    /\ presult.ok =>
         \A b \in ContentBytes :
             parse_eof_container(Append(bytecode, b)) = Err("SectionSizeMismatch")

(* C3 witness: two stray bytes after the content of two sections.          *)
C3_Witness ==
    /\ presult = Err("SectionSizeMismatch")
    /\ WireHeaderList(bytecode, 2)
    /\ WireContentSize(bytecode, 2) >= 1
    /\ Len(bytecode) = 3 * 2 + 4 + WireContentSize(bytecode, 2) + 2

---------------------------------------------------------------------------
(* SpecLayout: an EOFContainer is built one section at a time, each        *)
(* section with a header whose size is the content's length, so that every *)
(* container reached satisfies the Container invariant of the data model.  *)
(* After each step the container is written to the wire and parsed, and    *)
(* both the container and what the parser returned are validated.          *)

LayoutTypeSizes == {0, 4, 5, 8}
LayoutCodes == {<<>>, <<0>>, <<INVALID>>, <<PUSH1>>}
LayoutContainers == {<<>>, <<170>>}           \* 0xAA
LayoutData == {<<187, 187>>}                  \* 0xBB 0xBB

SectionContents(kind) ==
    CASE kind = "Type" -> {Zeros(n) : n \in LayoutTypeSizes}
      [] kind = "Code" -> LayoutCodes
      [] kind = "Container" -> LayoutContainers
      [] kind = "Data" -> LayoutData

Built(c) ==
    /\ container' = c
    /\ bytecode' = Serialize(c)
    /\ presult' = parse_eof_container(Serialize(c))
    /\ vresult' = validate_eof_container(c)
    /\ pvresult' = LET r == parse_eof_container(Serialize(c))
                   IN  IF r.ok THEN validate_eof_container(r.val) ELSE NotCalled
    /\ UNCHANGED <<wstage, code_sections, data_section, stepperVars>>

AddSection(kind, content) ==
    /\ Len(container.sections) < MaxSections
    /\ Built([header |-> [version |-> container.header.version,
                          section_headers |->
                              Append(container.header.section_headers,
                                     [kind |-> kind, size |-> as_u16(Len(content))])],
              sections |-> Append(container.sections, content)])

InitLayout ==
    /\ \E v \in Versions :
         container = [header |-> [version |-> v, section_headers |-> <<>>],
                      sections |-> <<>>]
    /\ bytecode = Serialize(container)
    /\ presult = parse_eof_container(bytecode)
    /\ vresult = validate_eof_container(container)
    /\ pvresult = NotCalled
    /\ wstage = "idle"
    /\ code_sections = <<>>
    /\ data_section = <<>>
    /\ IdleStepper

NextLayout ==
    \E kind \in SectionKind : \E content \in SectionContents(kind) :
        AddSection(kind, content)

SpecLayout == InitLayout /\ [][NextLayout]_vars

---------------------------------------------------------------------------
(* The rules of the data model and of validation, stated on a container    *)
(* without the validator.                                                  *)

HeadersOf(c) == c.header.section_headers
KindsOf(c) == [i \in 1..Len(HeadersOf(c)) |-> HeadersOf(c)[i].kind]
CountOf(c, kind) == Cardinality({i \in 1..Len(HeadersOf(c)) : HeadersOf(c)[i].kind = kind})

(* The Container invariant: one section per header, of the declared size.  *)
ContainerInvariant(c) ==
    /\ Len(c.sections) = Len(HeadersOf(c))
    /\ \A i \in 1..Len(HeadersOf(c)) : Len(c.sections[i]) = HeadersOf(c)[i].size

(* One Type, then one or more Code, then Container sections, then at most  *)
(* one Data.                                                               *)
CanonicalOrder(kinds) ==
    \E nc \in 1..Len(kinds), nk \in 0..Len(kinds), nd \in 0..1 :
        /\ Len(kinds) = 1 + nc + nk + nd
        /\ \A i \in 1..Len(kinds) :
             kinds[i] = IF i = 1 THEN "Type"
                        ELSE IF i <= 1 + nc THEN "Code"
                        ELSE IF i <= 1 + nc + nk THEN "Container"
                        ELSE "Data"

EmptinessRule(c) ==
    \A i \in 1..Len(HeadersOf(c)) :
        HeadersOf(c)[i].kind \in {"Type", "Code"} => HeadersOf(c)[i].size > 0

CardinalityRule(c) == CountOf(c, "Code") >= 1

TypeCodeRule(c) ==
    \A i \in 1..Len(HeadersOf(c)) :
        HeadersOf(c)[i].kind = "Type" =>
            /\ HeadersOf(c)[i].size % 4 = 0
            /\ HeadersOf(c)[i].size \div 4 = CountOf(c, "Code")

(* Length of the instruction that starts with opcode op: PUSH1..PUSH32     *)
(* (0x60..0x7F) carry op - 0x60 + 1 immediate bytes.                       *)
InstrLen(op) == IF op \in 96..127 THEN 1 + (op - 96 + 1) ELSE 1

(* The opcode positions (0-based) of a code section, from position p on.   *)
RECURSIVE OpcodePositions(_, _)
OpcodePositions(code_bytes, p) ==
    IF p >= Len(code_bytes) THEN {}
    ELSE {p} \cup OpcodePositions(code_bytes, p + InstrLen(code_bytes[p + 1]))

(* The error the per-instruction rule gives at opcode position p.          *)
Offends(code_bytes, p) ==
    LET op == code_bytes[p + 1]
    IN  \/ op \in {254, 255, 86, 87, 88}
        \/ op \in 96..127 /\ Len(code_bytes) - (p + 1) < op - 96 + 1

OffenceAt(code_bytes, p) ==
    LET op == code_bytes[p + 1]
    IN  IF op \in {254, 255} THEN ErrArg("InvalidOpcode", op)
        ELSE IF op \in {86, 87, 88} THEN ErrArg("JumpDestForbidden", op)
        ELSE Err("TruncatedPushData")

OffendingPositions(code_bytes) ==
    {p \in OpcodePositions(code_bytes, 0) : Offends(code_bytes, p)}

CleanCode(code_bytes) == OffendingPositions(code_bytes) = {}

OffendingSections(c) ==
    {i \in 1..Len(HeadersOf(c)) :
        HeadersOf(c)[i].kind = "Code" /\ ~CleanCode(c.sections[i])}

InstructionRule(c) == OffendingSections(c) = {}

(* The error of the first offending opcode position, in header order.      *)
FirstOffence(c) ==
    LET i == Min(OffendingSections(c))
    IN  OffenceAt(c.sections[i], Min(OffendingPositions(c.sections[i])))

InstructionErrors == {"InvalidOpcode", "JumpDestForbidden", "TruncatedPushData"}

---------------------------------------------------------------------------
(* Claims checked under SpecLayout.                                        *)

(* C4 as stated: every container that satisfies the Container invariant is *)
(* returned unchanged by parse_eof_container from its wire form.           *)
C4_RoundTrip_AsStated ==
    ContainerInvariant(container) =>
        parse_eof_container(Serialize(container)) = Ok(container)

(* C4 amended: a container that satisfies the Container invariant, has     *)
(* version 0x01, exactly one Type section and at most one Data section is  *)
(* returned unchanged by parse_eof_container from its wire form.           *)
C4_RoundTrip ==
    (/\ ContainerInvariant(container)
     /\ container.header.version = 1
     /\ CountOf(container, "Type") = 1
     /\ CountOf(container, "Data") <= 1)
    => /\ bytecode = Serialize(container)
       /\ presult = Ok(container)

(* C4 witness: a round trip of four sections in a non-canonical order,     *)
(* three of them with content of different lengths.                        *)
C4_Witness ==
    /\ presult = Ok(container)
    /\ KindsOf(container) = <<"Code", "Container", "Type", "Data">>
    /\ Len(container.sections[1]) = 1
    /\ Len(container.sections[3]) = 4
    /\ Len(container.sections[4]) = 2

(* C6 as stated: a container the parser produced, whose emptiness,         *)
(* type/code and per-instruction rules hold, is accepted by                *)
(* validate_eof_container exactly when its kinds are in canonical order.   *)
C6_OrderingIff ==
    (/\ presult = Ok(container)
     /\ EmptinessRule(container)
     /\ TypeCodeRule(container)
     /\ InstructionRule(container))
    => (vresult.ok <=> CanonicalOrder(KindsOf(container)))

(* C7: validate_eof_container accepts only if the Type size is four times  *)
(* the number of Code sections; a container that passes the ordering,      *)
(* emptiness, cardinality and per-instruction rules but not that one is    *)
(* rejected with MalformedSectionHeader.                                   *)
C7_TypeCodeConsistency ==
    /\ vresult.ok =>
         /\ CountOf(container, "Type") >= 1
         /\ TypeCodeRule(container)
    /\ (/\ CanonicalOrder(KindsOf(container))
        /\ EmptinessRule(container)
        /\ CardinalityRule(container)
        /\ InstructionRule(container)
        /\ ~TypeCodeRule(container))
       => vresult = Err("MalformedSectionHeader")

(* C7 witness: the Type section declares two records (size 8) and there is *)
(* one Code section, followed by Data; everything else is in order.        *)
C7_Witness ==
    /\ vresult = Err("MalformedSectionHeader")
    /\ KindsOf(container) = <<"Type", "Code", "Data">>
    /\ HeadersOf(container)[1].size = 8
    /\ container.sections[2] = <<0>>

(* C8 as stated: for a container the parser produced that passes the       *)
(* ordering, emptiness and cardinality rules, validate_eof_container       *)
(* returns the error of the first offending opcode position, and no        *)
(* per-instruction error when no position offends.                         *)
C8_FirstOffenceReported ==
    (/\ presult = Ok(container)
     /\ CanonicalOrder(KindsOf(container))
     /\ EmptinessRule(container)
     /\ CardinalityRule(container))
    => IF InstructionRule(container)
       THEN vresult.err \notin InstructionErrors
       ELSE vresult = FirstOffence(container)

---------------------------------------------------------------------------
(* SpecCode: the arguments of tests::create_valid_eof_bytecode are built   *)
(* up (whole code sections taken from the tests, single code bytes, the    *)
(* optional data section); after each step the helper writes the           *)
(* container, parse_eof_container parses it and validate_eof_container     *)
(* validates what was parsed, as every validation test does.               *)

(* The code sections of the validation tests.                              *)
TestCodes ==
    { <<PUSH1, 1, PUSH1, 2, ADD>>,      \* test_validate_valid_eof
      <<PUSH1, 1, INVALID>>,            \* test_validate_invalid_opcode
      <<PUSH1, 1, SELFDESTRUCT>>,       \* test_validate_selfdestruct_forbidden
      <<PUSH1, 1, JUMP>>,               \* test_validate_jump_forbidden
      <<PUSH1, 1, JUMPI>>,              \* test_validate_jumpi_forbidden
      <<PUSH1, 1, PC>>,                 \* test_validate_pc_forbidden
      <<PUSH1, 1, 97>>,                 \* test_validate_truncated_push_data (PUSH2)
      <<>> }                            \* test_validate_empty_code_section

CodeBytes == {0, 97, INVALID}           \* STOP, PUSH2, INVALID
TestData == {<<170>>}                   \* 0xAA

CodeBytesUsed(codes) == Len(Concat(codes))

Helped(codes, data) ==
    /\ code_sections' = codes
    /\ data_section' = data
    /\ bytecode' = create_valid_eof_bytecode(codes, data)
    /\ presult' = parse_eof_container(create_valid_eof_bytecode(codes, data))
    /\ pvresult' = LET r == parse_eof_container(create_valid_eof_bytecode(codes, data))
                   IN  IF r.ok THEN validate_eof_container(r.val) ELSE NotCalled
    /\ UNCHANGED <<wstage, container, vresult, stepperVars>>

PushCodeSection(v) ==
    /\ Len(code_sections) < MaxCodeSections
    /\ CodeBytesUsed(code_sections) + Len(v) <= MaxCodeBytes
    /\ Helped(Append(code_sections, v), data_section)

PushCodeByte(b) ==
    /\ code_sections # <<>>
    /\ CodeBytesUsed(code_sections) < MaxCodeBytes
    /\ Helped([code_sections EXCEPT ![Len(code_sections)] = Append(@, b)], data_section)

SetDataSection(d) ==
    /\ data_section = <<>>
    /\ Helped(code_sections, <<d>>)

InitCode ==
    /\ code_sections = <<>>
    /\ data_section = <<>>
    /\ bytecode = create_valid_eof_bytecode(<<>>, <<>>)
    /\ presult = parse_eof_container(bytecode)
    /\ pvresult = IF presult.ok THEN validate_eof_container(presult.val) ELSE NotCalled
    /\ wstage = "idle"
    /\ container = EmptyContainer
    /\ vresult = NotCalled
    /\ IdleStepper

NextCode ==
    \/ \E v \in TestCodes : PushCodeSection(v)
    \/ \E b \in CodeBytes : PushCodeByte(b)
    \/ \E d \in TestData : SetDataSection(d)

SpecCode == InitCode /\ [][NextCode]_vars

(* C5: a container laid out as Type (4 bytes per code section), one or     *)
(* more nonempty Code sections without an offending opcode position, and   *)
(* an optional Data section is accepted by parse_eof_container, and what   *)
(* the parser returns has that layout and is accepted by                   *)
(* validate_eof_container.                                                 *)
C5_WellFormedAccepted ==
    (/\ Len(code_sections) >= 1
     /\ \A i \in 1..Len(code_sections) :
          /\ code_sections[i] # <<>>
          /\ CleanCode(code_sections[i]))
    => /\ presult.ok
       /\ KindsOf(presult.val) =
              <<"Type">> \o [i \in 1..Len(code_sections) |-> "Code"]
                         \o [i \in 1..Len(data_section) |-> "Data"]
       /\ HeadersOf(presult.val)[1].size = 4 * Len(code_sections)
       /\ \A i \in 1..Len(code_sections) : presult.val.sections[i + 1] = code_sections[i]
       /\ pvresult = Ok(NoValue)

(* C5 witness: the minimal container, one Type section of size 4 and the   *)
(* Code section PUSH1 01 PUSH1 02 ADD, accepted by parser and validator.   *)
C5_Witness ==
    /\ code_sections = <<<<96, 1, 96, 2, 1>>>>
    /\ data_section = <<>>
    /\ bytecode = <<239, 0, 1, 1, 0, 4, 2, 0, 5, 0, 0, 0, 0, 0, 96, 1, 96, 2, 1>>
    /\ presult.ok
    /\ pvresult = Ok(NoValue)

(* The per-instruction rule on the containers of SpecCode, none of which   *)
(* has a Container section: when the emptiness and cardinality rules hold, *)
(* validate_eof_container returns the error of the first offending opcode  *)
(* position, and accepts when no position offends (the Type size is right  *)
(* by construction).                                                       *)
ScanReportsFirstOffence ==
    (/\ presult.ok
     /\ EmptinessRule(presult.val)
     /\ CardinalityRule(presult.val))
    => /\ CanonicalOrder(KindsOf(presult.val))
       /\ IF InstructionRule(presult.val)
          THEN pvresult = Ok(NoValue)
          ELSE pvresult = FirstOffence(presult.val)

---------------------------------------------------------------------------
(* SpecStep: a caller owns one code section, a cursor and a                *)
(* SimulatedStack, and calls simulate_eof_step, SimulatedStack::push and   *)
(* SimulatedStack::pop in any order.  pc0 and stack0 keep the cursor and   *)
(* the stack as they were before the last call.                            *)

(* The code sections of the stepper tests.                                 *)
StepTestCodes ==
    { <<RJUMP, 0, 2, 255, 1>>,          \* test_simulate_rjump
      <<1, RJUMP, 255, 254, PUSH1, 1>>, \* test_simulate_rjump_backward
      <<RJUMP, 127, 255>>,              \* test_simulate_rjump_out_of_bounds
      <<RJUMPI, 0, 2, 255, 1>>,         \* test_simulate_rjumpi_true
      <<RJUMPI, 0, 2, 255>> }           \* test_simulate_rjumpi_stack_underflow

StepBytes == {0, ADD, PUSH1, RJUMP, RJUMPI, 255}

RECURSIVE SeqsUpTo(_, _)
SeqsUpTo(S, n) ==
    IF n = 0 THEN {<<>>}
    ELSE LET shorter == SeqsUpTo(S, n - 1)
         IN  shorter \cup {Append(q, x) : q \in shorter, x \in S}

StepCodes == StepTestCodes \cup SeqsUpTo(StepBytes, MaxStepLen)
StackValues == {0, 1}

(* What a call leaves behind: its Result, the cursor and the stack, and    *)
(* the cursor and the stack it was given.                                  *)
Recorded(call, res, p, s) ==
    /\ lastCall' = call
    /\ stepResult' = res
    /\ pc' = p
    /\ stack' = s
    /\ pc0' = pc
    /\ stack0' = stack
    /\ UNCHANGED <<code, bytecode, presult, wstage, builderVars>>

Called(call, res, p, s) ==
    /\ Len(s) <= MaxStack
    /\ Recorded(call, res, p, s)

Step ==
    LET out == simulate_eof_step(code, pc, stack)
    IN  Called("step", out.res, out.pc, out.stack)

Push(val) ==
    LET out == SimulatedStack_push(stack, val)
    IN  Called("push", out.res, pc, out.stack)

Pop ==
    LET out == SimulatedStack_pop(stack)
    IN  Called("pop", out.res, pc, out.stack)

InitStep ==
    /\ code \in StepCodes
    /\ pc \in 0..Len(code)
    /\ stack = <<>>                     \* SimulatedStack::new()
    /\ stepResult = NotCalled
    /\ lastCall = "none"
    /\ pc0 = pc
    /\ stack0 = stack
    /\ IdleWriter
    /\ IdleBuilder

NextStep ==
    \/ Step
    \/ \E val \in StackValues : Push(val)
    \/ Pop

SpecStep == InitStep /\ [][NextStep]_vars

---------------------------------------------------------------------------
(* SpecStack: the calls of SpecStep on a stack that starts empty and is    *)
(* filled to its capacity.  Every value pushed is the placeholder the      *)
(* stepper pushes for PUSH1, and the code sections push and pop without    *)
(* the binary op, so that a stack is known by its length; the capacity of  *)
(* SimulatedStack is the only limit on the depth.                          *)

StackCodes ==
    { <<PUSH1, 0, RJUMP, 255, 254>>,    \* PUSH1 00, RJUMP -2: pushes for ever
      <<RJUMPI, 0, 0, PUSH1, 0>> }      \* RJUMPI +0: pops
StackFill == {PUSH1}

DeepStep ==
    LET out == simulate_eof_step(code, pc, stack)
    IN  Recorded("step", out.res, out.pc, out.stack)

DeepPush(val) ==
    LET out == SimulatedStack_push(stack, val)
    IN  Recorded("push", out.res, pc, out.stack)

DeepPop ==
    LET out == SimulatedStack_pop(stack)
    IN  Recorded("pop", out.res, pc, out.stack)

InitStack ==
    /\ code \in StackCodes
    /\ pc = 0
    /\ stack = <<>>                     \* SimulatedStack::new()
    /\ stepResult = NotCalled
    /\ lastCall = "none"
    /\ pc0 = pc
    /\ stack0 = stack
    /\ IdleWriter
    /\ IdleBuilder

NextStack ==
    \/ DeepStep
    \/ \E val \in StackFill : DeepPush(val)
    \/ DeepPop

SpecStack == InitStack /\ [][NextStack]_vars

(* C11: from an empty stack, after any calls of push, pop and              *)
(* simulate_eof_step the stack holds between 0 and 1024 values; a push on  *)
(* 1024 values returns StackOverflow and a pop on none returns             *)
(* StackUnderflow, two different errors, each leaving the stack as it was; *)
(* any other push or pop succeeds and changes the length by one.           *)
C11_StackBound ==
    /\ Len(stack) >= 0
    /\ Len(stack) <= 1024
    /\ lastCall = "push" =>
         IF Len(stack0) = 1024
         THEN stepResult = Err("StackOverflow") /\ stack = stack0
         ELSE stepResult.ok /\ Len(stack) = Len(stack0) + 1
    /\ lastCall = "pop" =>
         IF stack0 = <<>>
         THEN stepResult = Err("StackUnderflow") /\ stack = <<>>
         ELSE stepResult.ok /\ Len(stack) = Len(stack0) - 1
    /\ (lastCall \in {"push", "pop"} /\ ~stepResult.ok) =>
         stepResult.err = (IF lastCall = "push" THEN "StackOverflow" ELSE "StackUnderflow")

(* C11 witness: a push refused on a stack of 1024 values.                  *)
C11_Witness ==
    /\ lastCall = "push"
    /\ Len(stack0) = 1024
    /\ stepResult = Err("StackOverflow")
    /\ stack = stack0

---------------------------------------------------------------------------
(* Claims checked under SpecStep.                                          *)

(* The signed 16-bit big-endian value of the two bytes after position p.   *)
RelativeOffset(code_bytes, p) ==
    LET v == code_bytes[p + 2] * 256 + code_bytes[p + 3]
    IN  IF v < 32768 THEN v ELSE v - 65536

(* A whole 3-byte instruction with opcode op sits at position p.           *)
CompleteAt(code_bytes, p, op) ==
    /\ p >= 0
    /\ p + 3 <= Len(code_bytes)
    /\ code_bytes[p + 1] = op

(* The last call was a step that took a relative jump: RJUMP (0xE0), or    *)
(* RJUMPI (0xE1) with a nonzero value on top of the stack.                 *)
TookRelativeJump ==
    /\ lastCall = "step"
    /\ \/ CompleteAt(code, pc0, 224)
       \/ /\ CompleteAt(code, pc0, 225)
          /\ stack0 # <<>>
          /\ stack0[Len(stack0)] # 0

(* C9 as stated: a step that takes a relative jump at cursor pc0 leaves    *)
(* the cursor at pc0 + 3 + offset.                                         *)
C9_JumpRelativeToInstructionEnd ==
    TookRelativeJump => pc = pc0 + 3 + RelativeOffset(code, pc0)

(* C10: a step on a complete RJUMPI with an empty stack returns            *)
(* StackUnderflow and leaves the cursor and the (empty) stack as they      *)
(* were.                                                                   *)
C10_UnderflowKeepsCursor ==
    (/\ lastCall = "step"
     /\ CompleteAt(code, pc0, 225)
     /\ stack0 = <<>>)
    => /\ stepResult = Err("StackUnderflow")
       /\ pc = pc0
       /\ stack = <<>>

(* C10 witness: the step of test_simulate_rjumpi_stack_underflow, and one  *)
(* on an RJUMPI that is not at the start of its code section.              *)
C10_Witness ==
    /\ lastCall = "step"
    /\ stack0 = <<>>
    /\ stepResult = Err("StackUnderflow")
    /\ \/ code = <<225, 0, 2, 255>> /\ pc0 = 0
       \/ code = <<1, 225, 255, 254, 96, 1>> /\ pc0 = 1

(* A cursor value that is not a position of the code section: at or past   *)
(* its length, or below zero.                                              *)
OutsideCode(code_bytes, p) == p < 0 \/ p >= Len(code_bytes)

(* After a step that took a relative jump to target, the jump returned Ok  *)
(* with the cursor at target, and a step taken next returns                *)
(* UnexpectedEndOfInput and changes neither cursor nor stack.              *)
DeferredCheck(target) ==
    /\ stepResult.ok
    /\ pc = target
    /\ lastCall' = "step" =>
         /\ stepResult' = Err("UnexpectedEndOfInput")
         /\ pc' = pc
         /\ stack' = stack

(* C12 as stated: a step that takes a relative jump whose target, the      *)
(* position after the instruction plus the offset (C9), lies outside the   *)
(* code section returns Ok and stores that target; the step after it       *)
(* returns UnexpectedEndOfInput and changes neither cursor nor stack.      *)
C12_DeferredBoundsCheck ==
    [][ (TookRelativeJump /\ OutsideCode(code, pc0 + 3 + RelativeOffset(code, pc0)))
        => DeferredCheck(pc0 + 3 + RelativeOffset(code, pc0)) ]_vars

(* The same property of the value the jump arms do store, cursor plus      *)
(* offset: when it lies outside the code section the bounds check is       *)
(* deferred to the next step as C12 describes.                             *)
DeferredCheckOfStoredCursor ==
    [][ (TookRelativeJump /\ OutsideCode(code, pc0 + RelativeOffset(code, pc0)))
        => DeferredCheck(pc0 + RelativeOffset(code, pc0)) ]_vars

(* A jump that stored a cursor outside the code section was followed by a  *)
(* step.                                                                   *)
DeferredCheckReached ==
    /\ lastCall = "step"
    /\ stepResult = Err("UnexpectedEndOfInput")
    /\ OutsideCode(code, pc0)
    /\ \E p \in 0..(Len(code) - 3) :
          /\ CompleteAt(code, p, 224)
          /\ pc0 = p + RelativeOffset(code, p)

---------------------------------------------------------------------------
(* SpecRun: one code section is written into a container by                *)
(* create_valid_eof_bytecode, the container is parsed and validated, and   *)
(* the section is then run by simulate_eof_step calls alone, from cursor   *)
(* 0 and from any stack.                                                   *)

RunBytes == {0, PUSH1, PUSH32, RJUMP, RJUMPI}
RunCodes == SeqsUpTo(RunBytes, MaxRunLen)
RunStacks == SeqsUpTo(StackValues, MaxStack)

InitRun ==
    /\ code \in RunCodes
    /\ code_sections = <<code>>
    /\ data_section = <<>>
    /\ bytecode = create_valid_eof_bytecode(code_sections, data_section)
    /\ presult = parse_eof_container(bytecode)
    /\ pvresult = IF presult.ok THEN validate_eof_container(presult.val) ELSE NotCalled
    /\ wstage = "idle"
    /\ container = EmptyContainer
    /\ vresult = NotCalled
    /\ pc = 0
    /\ stack \in RunStacks
    /\ stepResult = NotCalled
    /\ lastCall = "none"
    /\ pc0 = pc
    /\ stack0 = stack

NextRun == Step

SpecRun == InitRun /\ [][NextRun]_vars

(* C13 as stated: no step of a run that starts at cursor 0 of a Code       *)
(* section of a container accepted by validate_eof_container returns       *)
(* TruncatedPushData.                                                      *)
C13_NoTruncatedPush ==
    (pvresult.ok /\ lastCall = "step") => stepResult.err # "TruncatedPushData"

---------------------------------------------------------------------------
(* The order in which validation reports.  Checked under SpecLayout.       *)

(* The ordering check made at header i: Type anywhere but first, Code not  *)
(* directly after Type or Code, Container after a Data, and Data after a   *)
(* Container (C6).                                                         *)
OrderingViolatedAt(c, i) ==
    LET kinds == KindsOf(c)
    IN  \/ kinds[i] = "Type" /\ i # 1
        \/ kinds[i] = "Code" /\ (i = 1 \/ kinds[i - 1] \notin {"Type", "Code"})
        \/ kinds[i] = "Container" /\ \E j \in 1..(i - 1) : kinds[j] = "Data"
        \/ kinds[i] = "Data" /\ \E j \in 1..(i - 1) : kinds[j] = "Container"

OrderingViolations(c) == {i \in 1..Len(HeadersOf(c)) : OrderingViolatedAt(c, i)}

EmptyAt(c, i) ==
    HeadersOf(c)[i].kind \in {"Type", "Code"} /\ HeadersOf(c)[i].size = 0

HeaderViolations(c) ==
    {i \in 1..Len(HeadersOf(c)) : OrderingViolatedAt(c, i) \/ EmptyAt(c, i)}

(* The one error of the first violated rule when the rules are taken in    *)
(* the order ordering, emptiness, cardinality, type/code consistency,      *)
(* per-instruction.                                                        *)
FirstViolationAsStated(c) ==
    IF OrderingViolations(c) # {} THEN Err("MalformedSectionHeader")
    ELSE IF ~EmptinessRule(c) THEN Err("SectionSizeMismatch")
    ELSE IF ~CardinalityRule(c) THEN Err("MissingTerminator")
    ELSE IF ~TypeCodeRule(c) THEN Err("MalformedSectionHeader")
    ELSE IF ~InstructionRule(c) THEN FirstOffence(c)
    ELSE Ok(NoValue)

(* C14 as stated: validation reports the first violated rule in the order  *)
(* ordering, sizing (emptiness, cardinality, type/code consistency),       *)
(* per-instruction; a type/code inconsistency together with an offending   *)
(* opcode position (and no rule before them violated) is reported as       *)
(* MalformedSectionHeader, and a zero-length Type or Code section without  *)
(* an ordering violation as SectionSizeMismatch.  Stated of the containers *)
(* the parser returns.                                                     *)
C14_RuleOrder_AsStated ==
    presult.ok =>
        /\ pvresult = FirstViolationAsStated(presult.val)
        /\ (/\ OrderingViolations(presult.val) = {}
            /\ EmptinessRule(presult.val)
            /\ CardinalityRule(presult.val)
            /\ ~TypeCodeRule(presult.val)
            /\ ~InstructionRule(presult.val))
             => pvresult = Err("MalformedSectionHeader")
        /\ (~EmptinessRule(presult.val) /\ OrderingViolations(presult.val) = {})
             => pvresult = Err("SectionSizeMismatch")

(* The one error of the first violated rule when the headers are taken in  *)
(* order, each for its ordering check and then for emptiness, and the      *)
(* rules after them in the order cardinality, per-instruction, type/code   *)
(* consistency.                                                            *)
FirstViolation(c) ==
    IF HeaderViolations(c) # {}
    THEN IF OrderingViolatedAt(c, Min(HeaderViolations(c)))
         THEN Err("MalformedSectionHeader")
         ELSE Err("SectionSizeMismatch")
    ELSE IF ~CardinalityRule(c) THEN Err("MissingTerminator")
    ELSE IF ~InstructionRule(c) THEN FirstOffence(c)
    ELSE IF ~TypeCodeRule(c) THEN Err("MalformedSectionHeader")
    ELSE Ok(NoValue)

(* C14, amended: validation reports one error, that of the first violated  *)
(* rule in the order: per header, ordering then emptiness; cardinality;    *)
(* per-instruction; type/code consistency.  A type/code inconsistency      *)
(* together with an offending opcode position, in a container whose        *)
(* headers pass ordering, emptiness and cardinality, is reported with the  *)
(* error of the first offending position, and a zero-length Type or Code   *)
(* section without an ordering violation as SectionSizeMismatch.           *)
C14_RuleOrder ==
    /\ vresult = FirstViolation(container)
    /\ presult.ok => pvresult = FirstViolation(presult.val)
    /\ (/\ HeaderViolations(container) = {}
        /\ CardinalityRule(container)
        /\ ~TypeCodeRule(container)
        /\ ~InstructionRule(container))
         => /\ vresult = FirstOffence(container)
            /\ vresult.err \in InstructionErrors
    /\ (~EmptinessRule(container) /\ OrderingViolations(container) = {})
         => vresult = Err("SectionSizeMismatch")

(* C14 witness: a parsed container with a Type section of 8 bytes, one     *)
(* Code section and a truncated PUSH1 in it, reported as                   *)
(* TruncatedPushData.                                                      *)
C14_Witness ==
    /\ presult.ok
    /\ HeaderViolations(container) = {}
    /\ CardinalityRule(container)
    /\ ~TypeCodeRule(container)
    /\ ~InstructionRule(container)
    /\ pvresult = Err("TruncatedPushData")
    /\ vresult = pvresult

---------------------------------------------------------------------------
(* What a failed step leaves behind.  Checked under SpecStep, and for      *)
(* StackOverflow under SpecStack.                                          *)

StepErrors ==
    {"UnexpectedEndOfInput", "TruncatedPushData", "StackUnderflow", "StackOverflow"}

StepFailed == lastCall = "step" /\ ~stepResult.ok

(* The last call was a step on the binary-op placeholder (0x01) with       *)
(* exactly one value on the stack.                                         *)
BinaryOpOnOneValue ==
    /\ lastCall = "step"
    /\ pc0 >= 0
    /\ pc0 < Len(code)
    /\ code[pc0 + 1] = 1
    /\ Len(stack0) = 1

(* C15 as stated: a step that returns an error leaves the cursor and the   *)
(* stack as they were; the binary-op placeholder on a stack of one value   *)
(* returns StackUnderflow and keeps that value.                            *)
C15_StepFailureAtomic ==
    /\ StepFailed => (pc = pc0 /\ stack = stack0)
    /\ BinaryOpOnOneValue => (stepResult = Err("StackUnderflow") /\ stack = stack0)

(* C15, amended: a step that returns an error returns one of the four      *)
(* step errors and leaves the cursor as it was; it leaves the stack as it  *)
(* was too, except that the binary-op placeholder on a stack of one value  *)
(* returns StackUnderflow after removing that value.                       *)
C15_StepFailureKeepsCursor ==
    /\ StepFailed =>
         /\ stepResult.err \in StepErrors
         /\ pc = pc0
         /\ IF BinaryOpOnOneValue THEN stack = <<>> ELSE stack = stack0
    /\ BinaryOpOnOneValue =>
         /\ stepResult = Err("StackUnderflow")
         /\ pc = pc0
         /\ stack = <<>>

(* C15 witness: the binary-op placeholder stepped on a stack of one value. *)
C15_Witness ==
    /\ BinaryOpOnOneValue
    /\ stepResult = Err("StackUnderflow")
    /\ stack0 # <<>>
    /\ stack = <<>>
    /\ pc = pc0

===========================================================================
